---- MODULE Spec2Model ----
(***************************************************************************)
(* Process lifecycle of the CodePilot-AI server: the WebSocket command     *)
(* session (src/src/server.js), the process registry `activeProcesses`,    *)
(* killProcess / deleteDirectory, and the two delete routes                *)
(* (src/src/config.js lines 303-320, src/src/server.js lines 252-260).     *)
(*                                                                         *)
(* Scheduling.  Node runs one callback at a time.  `await killProcess(..)` *)
(* suspends its handler for a microtask only, so a suspended teardown loop *)
(* resumes before the event loop takes the next I/O callback.  What can    *)
(* run while a loop is suspended is what the same callback still emits:    *)
(* further frames of the same socket chunk ('message' events of the same   *)
(* connection) and the nextTick 'error' event of a failed spawn.  Child    *)
(* process events, socket closes and HTTP requests are separate callbacks  *)
(* and need the loop to be idle.                                           *)
(*                                                                         *)
(* Environment assumptions: the OS hands out a fresh pid to every spawned  *)
(* child (no pid reuse inside a run); ws.send on a closed socket drops the *)
(* message; the non-win32 branch of killProcess is the one modelled.       *)
(***************************************************************************)
EXTENDS Integers, Sequences, FiniteSets

\* ------------------------------------------------------------ bounds
NumConns  == 2   \* socket connections accepted
MaxProcs  == 2   \* spawn() calls in a run
MaxFrames == 3   \* inbound frames handled in a run
MaxChunks == 2   \* 'data' events per process (stdout and stderr together)
MaxDeletes == 1  \* delete requests in a run

Conns == 1 .. NumConns

\* ------------------------------------------------------------ JS values
\* undefined, null and numbers are tagged so that any two values compare
Undefined == [undefined |-> TRUE]
Null      == [null |-> TRUE]
Num(n)    == [num |-> n]

\* strings are tuples of characters, so that includes / startsWith search them
\* (the text of a library error is kept as one element)
SCAFFOLD_TRIGGER ==
  <<"c","r","e","a","t","e","-","r","e","a","c","t","-","a","p","p">>

StartsWithAt(s, sub, i) ==
  \* s has sub at offset i (0-based)
  /\ i + Len(sub) <= Len(s)
  /\ \A k \in 1 .. Len(sub) : s[i + k] = sub[k]

StartsWith(s, sub) == StartsWithAt(s, sub, 0)

Includes(s, sub) == \E i \in 0 .. Len(s) : StartsWithAt(s, sub, i)


\* ------------------------------------------------------------ inbound frames
CmdLs       == <<"l","s">>
CmdScaffold == <<"n","p","x"," ">> \o SCAFFOLD_TRIGGER
CmdNearMiss == <<"c","r","e","a","t","e","-","r","e","a","c","t">>

FrameNotJson   == "stop"
FrameNull      == "null"
FrameNumber    == "5"
FramePing      == "{\"type\":\"ping\"}"
FrameStop      == "{\"type\":\"stop\"}"
FrameNoCommand == "{\"type\":\"command\"}"
FrameEmptyCmd  == "{\"type\":\"command\",\"command\":\"\"}"
FrameLs        == "{\"type\":\"command\",\"command\":\"ls\"}"
FrameScaffold  == "{\"type\":\"command\",\"command\":\"npx create-react-app\"}"
FrameNearMiss  == "{\"type\":\"command\",\"command\":\"create-react\"}"

Frames ==
  { FrameNotJson, FrameNull, FrameNumber, FramePing, FrameStop, FrameNoCommand,
    FrameEmptyCmd, FrameLs, FrameScaffold, FrameNearMiss }

Obj(props) == [t |-> "object", props |-> props]

\* JSON.parse on the frames above: a thrown SyntaxError or the parsed value
JSONParse(text) ==
  CASE text = FrameNotJson   -> [t |-> "throw", message |-> <<"Unexpected token s in JSON at position 0">>]
    [] text = FrameNull      -> [t |-> "null"]
    [] text = FrameNumber    -> [t |-> "number"]
    [] text = FramePing      -> Obj([type |-> "ping"])
    [] text = FrameStop      -> Obj([type |-> "stop"])
    [] text = FrameNoCommand -> Obj([type |-> "command"])
    [] text = FrameEmptyCmd  -> Obj([type |-> "command", command |-> <<>>])
    [] text = FrameLs        -> Obj([type |-> "command", command |-> CmdLs])
    [] text = FrameScaffold  -> Obj([type |-> "command", command |-> CmdScaffold])
    [] text = FrameNearMiss  -> Obj([type |-> "command", command |-> CmdNearMiss])

\* data.k is undefined on a missing property and on a primitive
Has(v, k) == v.t = "object" /\ k \in DOMAIN v.props


\* ------------------------------------------------------------ state
VARIABLES
  conn,             \* connection -> "new" | "open" | "closed"
  procs,            \* the child processes, in spawn order
  activeProcesses,  \* the registry Map, as its entries in insertion order
  tasks,            \* teardown loops suspended at `await killProcess(pid)`
  outbox,           \* connection -> the messages ws.send put on the socket
  nframes,          \* inbound frames handled so far
  nodeEnv,          \* process.env.NODE_ENV
  reqs,             \* the delete requests, in arrival order
  last              \* the handler that ran last

vars == <<conn, procs, activeProcesses, tasks, outbox, nframes, nodeEnv, reqs, last>>

\* ------------------------------------------------------------ paths
Workspace == <<"w","o","r","k","s","p","a","c","e">>

\* the directory of server.js when the server is not run from /tmp
InstallDir == <<"/","a","p","p","/","s","r","c">>

RECURSIVE Split(_, _)
\* s.split('/'), cur being the segment read so far
Split(s, cur) ==
  IF s = <<>> THEN <<cur>>
  ELSE IF Head(s) = "/" THEN <<cur>> \o Split(Tail(s), <<>>)
       ELSE Split(Tail(s), Append(cur, Head(s)))

RECURSIVE NormalizeSegments(_, _)
\* '.' and empty segments go, '..' takes the segment before it (none above /)
NormalizeSegments(segs, acc) ==
  IF segs = <<>> THEN acc
  ELSE LET g == Head(segs)
       IN  IF g = <<>> \/ g = <<".">> THEN NormalizeSegments(Tail(segs), acc)
           ELSE IF g = <<".", ".">>
                THEN NormalizeSegments(Tail(segs),
                       IF acc = <<>> THEN acc ELSE SubSeq(acc, 1, Len(acc) - 1))
                ELSE NormalizeSegments(Tail(segs), Append(acc, g))

RECURSIVE JoinSegments(_)
JoinSegments(segs) ==
  IF segs = <<>> THEN <<>> ELSE <<"/">> \o Head(segs) \o JoinSegments(Tail(segs))

\* path.normalize of an absolute path; a trailing slash is kept
Normalize(s) ==
  LET segs == NormalizeSegments(Split(s, <<>>), <<>>)
  IN  IF segs = <<>> THEN <<"/">>
      ELSE JoinSegments(segs) \o (IF s[Len(s)] = "/" THEN <<"/">> ELSE <<>>)

\* path.join(a, b) for an absolute a: empty arguments are skipped
Join(a, b) == IF b = <<>> THEN Normalize(a) ELSE Normalize(a \o <<"/">> \o b)

WorkspaceDir(env) ==
  IF env = "production" THEN <<"/","t","m","p","/">> \o Workspace
  ELSE Join(Join(InstallDir, <<".", ".">>), Workspace)

WORKSPACE_DIR == WorkspaceDir(nodeEnv)

\* ------------------------------------------------------------ Map operations
KeyIndex(reg, key) ==
  IF \E i \in DOMAIN reg : reg[i].key = key
  THEN CHOOSE i \in DOMAIN reg : reg[i].key = key
  ELSE 0

RemoveAt(seq, i) == SubSeq(seq, 1, i - 1) \o SubSeq(seq, i + 1, Len(seq))

\* Map.prototype.set: a present key keeps its place, a new key goes last
MapSet(reg, e) ==
  LET i == KeyIndex(reg, e.key)
  IN  IF i = 0 THEN Append(reg, e) ELSE [reg EXCEPT ![i] = e]

\* (mutant) removal by position, as of array.splice(indexOf(key), 1): an
\* absent key takes the last entry away
MapDeleteSplice(reg, key) ==
  LET i == KeyIndex(reg, key)
  IN  IF i = 0 THEN SubSeq(reg, 1, Len(reg) - 1) ELSE RemoveAt(reg, i)

\* Map.prototype.delete: removing an absent key changes nothing
MapDelete(reg, key) ==
  LET i == KeyIndex(reg, key)
  IN  IF i = 0 THEN reg ELSE RemoveAt(reg, i)

\* a live Map iterator keeps its place when an entry it has passed goes away
IterAfterDelete(ts, reg, key) ==
  LET i == KeyIndex(reg, key)
  IN  IF i = 0 THEN ts
      ELSE [k \in DOMAIN ts |->
              IF ts[k].pos >= i THEN [ts[k] EXCEPT !.pos = @ - 1] ELSE ts[k]]

Registered(p) == \E i \in DOMAIN activeProcesses : activeProcesses[i].process = p

\* ------------------------------------------------------------ ws.send
\* (mutant) the message is put ahead of the ones already queued
SendFront(ob, c, msg, p) ==
  IF conn[c] = "open"
  THEN [ob EXCEPT ![c] = <<[msg |-> msg, from |-> p]>> \o @]
  ELSE ob

\* the socket takes the message while it is open and drops it afterwards;
\* `from` notes beside the message the process whose handler sent it (0: none)
Send(ob, c, msg, p) ==
  IF conn[c] = "open"
  THEN [ob EXCEPT ![c] = Append(@, [msg |-> msg, from |-> p])]
  ELSE ob

\* ------------------------------------------------------------ killProcess
KillErrnos == {"none", "EPERM"}

\* process.kill(pid, 'SIGTERM') inside try/catch: an undefined pid throws a
\* TypeError, a pid with no live process ESRCH; both are logged and swallowed
KillProcess(ps, pid, errno) ==
  IF pid = Undefined THEN ps
  ELSE [i \in DOMAIN ps |->
          IF ps[i].pid # pid THEN ps[i]
          ELSE IF ps[i].phase = "running" /\ errno = "none"
               THEN [ps[i] EXCEPT !.term = "delivered"]
               ELSE [ps[i] EXCEPT !.term = IF @ = "delivered" THEN @ ELSE "failed"]]

\* ------------------------------------------------------------ scheduling
PendingError == {p \in DOMAIN procs : procs[p].phase = "failed"}

\* the failed spawns whose 'error' event will find no listener
PendingUncaught == {p \in DOMAIN procs : procs[p].phase = "nopipes"}

\* an uncaught exception has ended the server process
Crashed == \E p \in DOMAIN procs : procs[p].phase = "crashed"

\* nothing of the current callback is left to run
Idle == tasks = <<>> /\ PendingError = {} /\ PendingUncaught = {} /\ ~Crashed

\* what is left to run belongs to the socket chunk of connection c
InTurn(c) ==
  /\ \A k \in DOMAIN tasks : tasks[k].kind = "stop" /\ tasks[k].ws = c
  /\ \A p \in PendingError \cup PendingUncaught : procs[p].ws = c
  /\ ~Crashed

Ran(op, c, frame, p) == [op |-> op, ws |-> c, frame |-> frame, proc |-> p]


\* ------------------------------------------------------------ teardown loops
\* (mutant) the close loop without its ownership test
MatchesAnyOwner(task, e) == TRUE

\* stop takes every entry, close the entries with process.ws === ws
Matches(task, e) == task.kind = "stop" \/ e.ws = task.ws

NextMatch(reg, task) ==
  LET js == {j \in DOMAIN reg : j > task.pos /\ Matches(task, reg[j])}
  IN  IF js = {} THEN 0 ELSE CHOOSE j \in js : \A k \in js : j <= k

\* (mutant) the loop removes the entries without signalling the processes
TeardownLoopNoKill(reg, ps, ts, task, errno) ==
  LET j == NextMatch(reg, task)
  IN  IF j = 0 THEN [procs |-> ps, tasks |-> ts]
      ELSE [procs |-> ps,
            tasks |-> Append(ts, [task EXCEPT !.pos = j, !.cur = reg[j].key])]

\* for (const [pid, process] of activeProcesses.entries()): run to the next
\* `await killProcess(pid)`, or to the end of the loop
TeardownLoop(reg, ps, ts, task, errno) ==
  LET j == NextMatch(reg, task)
  IN  IF j = 0 THEN [procs |-> ps, tasks |-> ts]
      ELSE [procs |-> KillProcess(ps, reg[j].key, errno),
            tasks |-> Append(ts, [task EXCEPT !.pos = j, !.cur = reg[j].key])]

\* `seen` notes how many processes had been spawned when the loop started
NewTask(kind, c) ==
  [kind |-> kind, ws |-> c, pos |-> 0, cur |-> Undefined, seen |-> Len(procs)]

\* ------------------------------------------------------------ Buffer.toString
Utf8Char(cp) ==
  CASE cp = 65  -> "A"
    [] cp = 66  -> "B"
    [] cp = 69  -> "E"
    [] cp = 233 -> "U+00E9"
    [] OTHER    -> "U+FFFD"

RECURSIVE ToString(_)
\* UTF-8 decoding of a chunk; a lead byte the chunk cuts off decodes to U+FFFD
ToString(bytes) ==
  IF bytes = <<>> THEN <<>>
  ELSE LET b == Head(bytes)
       IN  IF b < 128 THEN <<Utf8Char(b)>> \o ToString(Tail(bytes))
           ELSE IF /\ b >= 194 /\ b <= 223 /\ Len(bytes) >= 2
                   /\ bytes[2] >= 128 /\ bytes[2] <= 191
                THEN <<Utf8Char((b - 192) * 64 + (bytes[2] - 128))>>
                       \o ToString(Tail(Tail(bytes)))
                ELSE <<"U+FFFD">> \o ToString(Tail(bytes))

StdoutChunks == {<<65>>, <<66, 195>>}
StderrChunks == {<<69>>}

\* ------------------------------------------------------------ connections
\* wss.on('connection'): the handlers are attached, nothing else
Connect(c) ==
  /\ Idle
  /\ conn[c] = "new"
  /\ conn' = [conn EXCEPT ![c] = "open"]
  /\ last' = Ran("connection", c, "", 0)
  /\ UNCHANGED <<procs, activeProcesses, tasks, outbox, nframes, nodeEnv, reqs>>

\* (mutant) the catch answers and then terminates the socket
CaughtClosesSocket(c, text, message) ==
  /\ outbox' = Send(outbox, c, [type |-> "error", content |-> message], 0)
  /\ conn' = [conn EXCEPT ![c] = "closed"]
  /\ last' = Ran("caught", c, text, 0)
  /\ UNCHANGED <<procs, activeProcesses, tasks>>

\* the catch of the message handler
Caught(c, text, message) ==
  /\ outbox' = Send(outbox, c, [type |-> "error", content |-> message], 0)
  /\ last' = Ran("caught", c, text, 0)
  /\ UNCHANGED <<conn, procs, activeProcesses, tasks>>

\* spawn returns a child ("ok"), returns a child without pid whose 'error'
\* event follows on the next tick (ENOENT, EACCES, EAGAIN: "ENOENT"), returns
\* a child without pid and without stdio streams (EMFILE, ENFILE: "EMFILE"),
\* or throws (any other errno: "E2BIG")
SpawnOutcomes == {"ok", "ENOENT", "EMFILE", "E2BIG"}

\* the outcomes of a spawn while file descriptors and memory are plentiful
PlentifulOutcomes == {"ok", "ENOENT"}

\* error.message of a failed spawn
SpawnErrorMessage(outcome) ==
  CASE outcome = "ENOENT" -> <<"spawn /bin/sh ENOENT">>
    [] outcome = "EMFILE" -> <<"spawn /bin/sh EMFILE">>
    [] OTHER              -> <<"spawn E2BIG">>

\* the child came back without stdio streams: it is registered, then
\* childProcess.stdout.on throws and the catch answers with the TypeError;
\* no listener has been attached to the child
SpawnNoPipes(c, text, command) ==
  LET p == Len(procs) + 1
      child == [command |-> command, ws |-> c, pid |-> Undefined,
                phase |-> "nopipes", code |-> Null, term |-> "none",
                out |-> <<>>, nerr |-> 0]
  IN  /\ procs' = Append(procs, child)
      /\ activeProcesses' =
           MapSet(activeProcesses,
                  [key |-> Undefined, process |-> p, cwd |-> WORKSPACE_DIR, ws |-> c])
      /\ outbox' = Send(outbox, c,
                        [type |-> "error",
                         content |-> <<"Cannot read properties of undefined (reading 'on')">>], 0)
      /\ last' = Ran("nopipes", c, text, p)
      /\ UNCHANGED <<conn, tasks>>

\* spawn(command, [], {shell: true, cwd, env}) and activeProcesses.set
SpawnAndRegister(c, text, command, outcome) ==
  LET p   == Len(procs) + 1
      pid == IF outcome = "ok" THEN Num(p) ELSE Undefined
      child == [command |-> command, ws |-> c, pid |-> pid,
                phase |-> IF outcome = "ok" THEN "running" ELSE "failed",
                code |-> Null, term |-> "none", out |-> <<>>, nerr |-> 0]
  IN  /\ procs' = Append(procs, child)
      /\ activeProcesses' =
           MapSet(activeProcesses,
                  [key |-> pid, process |-> p, cwd |-> WORKSPACE_DIR, ws |-> c])
      /\ last' = Ran("command", c, text, p)
      /\ UNCHANGED <<conn, tasks, outbox>>

\* (mutant) a teardown that finds nothing to terminate reports it
StartTeardownReports(kind, c, text, errno) ==
  LET r == TeardownLoop(activeProcesses, procs, tasks, NewTask(kind, c), errno)
  IN  /\ procs' = r.procs
      /\ tasks' = r.tasks
      /\ last' = Ran(kind, c, text, 0)
      /\ outbox' = IF r.tasks = tasks
                   THEN Send(outbox, c, [type |-> "error", content |-> <<"No active process">>], 0)
                   ELSE outbox
      /\ UNCHANGED activeProcesses

\* a teardown handler from its start to its first await (or its end)
StartTeardown(kind, c, text, errno) ==
  LET r == TeardownLoop(activeProcesses, procs, tasks, NewTask(kind, c), errno)
  IN  /\ procs' = r.procs
      /\ tasks' = r.tasks
      /\ last' = Ran(kind, c, text, 0)
      /\ UNCHANGED <<activeProcesses, outbox>>

\* ws.on('message'), spawn ending in one of the given outcomes
MessageWith(c, text, outcomes) ==
  /\ conn[c] = "open"
  /\ InTurn(c)
  /\ nframes < MaxFrames
  /\ nframes' = nframes + 1
  /\ UNCHANGED <<nodeEnv, reqs>>
  /\ LET data == JSONParse(text)
     IN  IF data.t = "throw" THEN Caught(c, text, data.message)
         ELSE IF data.t = "null"
         THEN Caught(c, text, <<"Cannot read properties of null (reading 'type')">>)
         ELSE IF Has(data, "type") /\ data.props.type = "command"
         THEN IF ~Has(data, "command")
              THEN Caught(c, text, <<"The \"file\" argument must be of type string. Received undefined">>)
              ELSE IF data.props.command = <<>>
              THEN Caught(c, text, <<"The argument 'file' cannot be empty. Received ''">>)
              ELSE /\ Len(procs) < MaxProcs
                   /\ \E outcome \in outcomes :
                        IF outcome = "E2BIG"
                        THEN Caught(c, text, SpawnErrorMessage(outcome))
                        ELSE IF outcome = "EMFILE"
                        THEN SpawnNoPipes(c, text, data.props.command)
                        ELSE SpawnAndRegister(c, text, data.props.command, outcome)
         ELSE IF Has(data, "type") /\ data.props.type = "stop"
         THEN /\ \E errno \in KillErrnos : StartTeardown("stop", c, text, errno)
              /\ UNCHANGED conn
         ELSE /\ last' = Ran("ignored", c, text, 0)
              /\ UNCHANGED <<conn, procs, activeProcesses, tasks, outbox>>

\* ws.on('message')
Message(c, text) == MessageWith(c, text, SpawnOutcomes)

\* ws.on('close')
WsClose(c) ==
  /\ Idle
  /\ conn[c] = "open"
  /\ conn' = [conn EXCEPT ![c] = "closed"]
  /\ \E errno \in KillErrnos : StartTeardown("close", c, "", errno)
  /\ UNCHANGED <<nframes, nodeEnv, reqs>>

\* (mutant) a failed kill rejects the awaited promise: the loop ends there,
\* without the delete and without the entries after it
ResumeRethrows(k) ==
  /\ ~Crashed
  /\ k \in DOMAIN tasks
  /\ LET t    == tasks[k]
         i    == KeyIndex(activeProcesses, t.cur)
         threw == i # 0 /\ procs[activeProcesses[i].process].term = "failed"
         reg  == IF threw THEN activeProcesses ELSE MapDelete(activeProcesses, t.cur)
         adj  == IF threw THEN tasks ELSE IterAfterDelete(tasks, activeProcesses, t.cur)
     IN  /\ activeProcesses' = reg
         /\ \E errno \in KillErrnos :
              LET r == IF threw THEN [procs |-> procs, tasks |-> RemoveAt(adj, k)]
                       ELSE TeardownLoop(reg, procs, RemoveAt(adj, k), adj[k], errno)
              IN  /\ procs' = r.procs
                  /\ tasks' = r.tasks
         /\ last' = Ran(t.kind, t.ws, "", 0)
  /\ UNCHANGED <<conn, outbox, nframes, nodeEnv, reqs>>

\* a suspended loop resumes: activeProcesses.delete(pid), then the next entry
Resume(k) ==
  /\ ~Crashed
  /\ k \in DOMAIN tasks
  /\ LET t    == tasks[k]
         reg  == MapDelete(activeProcesses, t.cur)
         adj  == IterAfterDelete(tasks, activeProcesses, t.cur)
     IN  /\ activeProcesses' = reg
         /\ \E errno \in KillErrnos :
              LET r == TeardownLoop(reg, procs, RemoveAt(adj, k), adj[k], errno)
              IN  /\ procs' = r.procs
                  /\ tasks' = r.tasks
         /\ last' = Ran(t.kind, t.ws, "", 0)
  /\ UNCHANGED <<conn, outbox, nframes, nodeEnv, reqs>>

\* ------------------------------------------------------------ child events
Alive(p) == procs[p].phase \in {"running", "exited"}

\* childProcess.stdout.on('data')
ChildStdout(p, chunk) ==
  /\ Idle
  /\ p \in DOMAIN procs /\ Alive(p)
  /\ Len(procs[p].out) + procs[p].nerr < MaxChunks
  /\ procs' = [procs EXCEPT ![p].out = Append(@, chunk)]
  /\ outbox' = Send(outbox, procs[p].ws,
                    [type |-> "output", content |-> ToString(chunk),
                     command |-> procs[p].command], p)
  /\ last' = Ran("stdout", procs[p].ws, "", p)
  /\ UNCHANGED <<conn, activeProcesses, tasks, nframes, nodeEnv, reqs>>

\* childProcess.stderr.on('data')
ChildStderr(p, chunk) ==
  /\ Idle
  /\ p \in DOMAIN procs /\ Alive(p)
  /\ Len(procs[p].out) + procs[p].nerr < MaxChunks
  /\ procs' = [procs EXCEPT ![p].nerr = @ + 1]
  /\ outbox' = Send(outbox, procs[p].ws,
                    [type |-> "error", content |-> ToString(chunk),
                     command |-> procs[p].command], p)
  /\ last' = Ran("stderr", procs[p].ws, "", p)
  /\ UNCHANGED <<conn, activeProcesses, tasks, nframes, nodeEnv, reqs>>

\* the child terminates: on its own, or by a delivered SIGTERM (code null)
ChildExit(p, code) ==
  /\ Idle
  /\ p \in DOMAIN procs /\ procs[p].phase = "running"
  /\ code = Null => procs[p].term = "delivered"
  /\ procs' = [procs EXCEPT ![p].phase = "exited", ![p].code = code]
  /\ last' = Ran("exit", procs[p].ws, "", p)
  /\ UNCHANGED <<conn, activeProcesses, tasks, outbox, nframes, nodeEnv, reqs>>

\* (mutant) commandComplete only for a scaffold that exited with code 0
CloseMessageOnSuccess(command, code) ==
  IF Includes(command, SCAFFOLD_TRIGGER) /\ code = Num(0)
  THEN [type |-> "commandComplete", command |-> command, code |-> code,
        message |-> <<"React app created successfully! You can now start editing the files.">>]
  ELSE [type |-> "close", code |-> code, command |-> command]

\* the terminal message of childProcess.on('close')
CloseMessage(command, code) ==
  IF Includes(command, SCAFFOLD_TRIGGER)
  THEN [type |-> "commandComplete", command |-> command, code |-> code,
        message |-> <<"React app created successfully! You can now start editing the files.">>]
  ELSE [type |-> "close", code |-> code, command |-> command]

\* (mutant) the close handler without activeProcesses.delete
ChildCloseKeepsEntry(p) ==
  /\ Idle
  /\ p \in DOMAIN procs /\ procs[p].phase \in {"exited", "errored"}
  /\ outbox' = Send(outbox, procs[p].ws, CloseMessage(procs[p].command, procs[p].code), p)
  /\ procs' = [procs EXCEPT ![p].phase = "closed"]
  /\ last' = Ran("childClose", procs[p].ws, "", p)
  /\ UNCHANGED <<conn, activeProcesses, tasks, nframes, nodeEnv, reqs>>

\* childProcess.on('close')
ChildClose(p) ==
  /\ Idle
  /\ p \in DOMAIN procs /\ procs[p].phase \in {"exited", "errored"}
  /\ activeProcesses' = MapDelete(activeProcesses, procs[p].pid)
  /\ tasks' = IterAfterDelete(tasks, activeProcesses, procs[p].pid)
  /\ outbox' = Send(outbox, procs[p].ws, CloseMessage(procs[p].command, procs[p].code), p)
  /\ procs' = [procs EXCEPT ![p].phase = "closed"]
  /\ last' = Ran("childClose", procs[p].ws, "", p)
  /\ UNCHANGED <<conn, nframes, nodeEnv, reqs>>

\* childProcess.on('error'): the spawn failed, emitted on the next tick and
\* followed by an exit code that is the negated errno
ChildError(p) ==
  /\ ~Crashed
  /\ p \in PendingError
  /\ activeProcesses' = MapDelete(activeProcesses, procs[p].pid)
  /\ tasks' = IterAfterDelete(tasks, activeProcesses, procs[p].pid)
  /\ outbox' = Send(outbox, procs[p].ws,
                    [type |-> "error", content |-> SpawnErrorMessage("ENOENT"),
                     command |-> procs[p].command], p)
  /\ procs' = [procs EXCEPT ![p].phase = "errored", ![p].code = Num(0 - 2)]
  /\ last' = Ran("childError", procs[p].ws, "", p)
  /\ UNCHANGED <<conn, nframes, nodeEnv, reqs>>

\* the 'error' event of a child that has no 'error' listener: emit throws,
\* nothing catches it, and the server process ends with its sockets
UncaughtError(p) ==
  /\ ~Crashed
  /\ p \in PendingUncaught
  /\ procs' = [procs EXCEPT ![p].phase = "crashed", ![p].code = Num(0 - 24)]
  /\ conn' = [c \in Conns |-> IF conn[c] = "open" THEN "lost" ELSE conn[c]]
  /\ last' = Ran("uncaught", procs[p].ws, "", p)
  /\ UNCHANGED <<activeProcesses, tasks, outbox, nframes, nodeEnv, reqs>>

\* ------------------------------------------------------------ delete routes
PathRoot    == <<>>
PathA       == <<"a">>
PathEtc     == <<".", ".", "/", "e", "t", "c">>
PathSibling == <<".", ".", "/">> \o Workspace \o <<"2">>

DeletePaths == {PathRoot, PathA, PathEtc, PathSibling}

RECURSIVE StripLeadingSlashes(_)
\* replace(/^\/+/, '')
StripLeadingSlashes(s) ==
  IF s # <<>> /\ Head(s) = "/" THEN StripLeadingSlashes(Tail(s)) ELSE s

\* replace(/^workspace\/+/, '')
StripWorkspacePrefix(s) ==
  IF StartsWith(s, Workspace \o <<"/">>)
  THEN StripLeadingSlashes(SubSeq(s, Len(Workspace) + 1, Len(s)))
  ELSE s

CleanPath(path) == StripWorkspacePrefix(StripLeadingSlashes(path))

\* Array.from(activeProcesses.values()): the records {process, cwd, ws}
MapValues(reg) ==
  [i \in DOMAIN reg |->
     [process |-> reg[i].process, cwd |-> reg[i].cwd, ws |-> reg[i].ws]]

\* record.pid: the record has no such property, the pid is record.process.pid
RecordPid(rec) == IF "pid" \in DOMAIN rec THEN rec.pid ELSE Undefined

RECURSIVE KillUnder(_, _, _)
\* the loop of deleteDirectory over the snapshot
KillUnder(ps, snapshot, dirPath) ==
  IF snapshot = <<>> THEN ps
  ELSE LET rec == Head(snapshot)
       IN  KillUnder(IF Includes(rec.cwd, dirPath)
                     THEN KillProcess(ps, RecordPid(rec), "none")
                     ELSE ps,
                     Tail(snapshot), dirPath)

\* directory dir is cwd or lies above it
Under(cwd, dir) ==
  LET d == IF dir # <<>> /\ dir[Len(dir)] = "/" /\ Len(dir) > 1
           THEN SubSeq(dir, 1, Len(dir) - 1) ELSE dir
  IN  cwd = d \/ StartsWith(cwd, IF d = <<"/">> THEN d ELSE d \o <<"/">>)

\* the registered processes whose working directory lies under dir
RegisteredUnder(dir) ==
  {activeProcesses[i].process : i \in
     {j \in DOMAIN activeProcesses :
        /\ procs[activeProcesses[j].process].phase = "running"
        /\ Under(activeProcesses[j].cwd, dir)}}

\* `under` notes the running registered processes below the directory that a
\* request is about to remove, `fs` the filesystem calls made for the request
\* so far and `kills` the number of killProcess calls made for it
Request(route, path, target, phase, status) ==
  [route |-> route, path |-> path, target |-> target, phase |-> phase,
   status |-> status,
   under |-> IF phase \in {"grace", "unlink", "access"}
             THEN RegisteredUnder(target) ELSE {},
   fs |-> IF phase \in {"unlink", "access"} THEN <<phase>> ELSE <<>>,
   kills |-> 0]

\* the records of the snapshot on which deleteDirectory calls killProcess
KillCalls(snapshot, dirPath) ==
  Cardinality({i \in DOMAIN snapshot : Includes(snapshot[i].cwd, dirPath)})

\* app.delete('/api/files/delete') of config.js, up to the grace timer of
\* deleteDirectory
DeleteDirectoryRoute(path) ==
  /\ Idle
  /\ Len(reqs) < MaxDeletes
  /\ LET targetPath == Join(WORKSPACE_DIR, CleanPath(path))
     IN  IF ~StartsWith(targetPath, WORKSPACE_DIR)
         THEN /\ reqs' = Append(reqs, Request("directory", path, targetPath, "done", 403))
              /\ UNCHANGED procs
         ELSE /\ procs' = KillUnder(procs, MapValues(activeProcesses), targetPath)
              /\ reqs' = Append(reqs,
                   [Request("directory", path, targetPath, "grace", 0)
                      EXCEPT !.kills = KillCalls(MapValues(activeProcesses), targetPath)])
  /\ last' = Ran("deleteDirectory", 0, "", 0)
  /\ UNCHANGED <<conn, activeProcesses, tasks, outbox, nframes, nodeEnv>>

\* the grace timer fires: fs.rm(dirPath, {recursive: true, force: true})
GraceElapsed(r) ==
  /\ Idle
  /\ r \in DOMAIN reqs /\ reqs[r].phase = "grace"
  /\ reqs' = [reqs EXCEPT ![r].phase = "rm", ![r].fs = Append(@, "rm")]
  /\ last' = Ran("rm", 0, "", 0)
  /\ UNCHANGED <<conn, procs, activeProcesses, tasks, outbox, nframes, nodeEnv>>

\* fs.rm settles: res.json({success: true}), or the catch answers 500
RmSettled(r, ok) ==
  /\ Idle
  /\ r \in DOMAIN reqs /\ reqs[r].route = "directory" /\ reqs[r].phase = "rm"
  /\ reqs' = [reqs EXCEPT ![r].phase = "done", ![r].status = IF ok THEN 200 ELSE 500]
  /\ last' = Ran("rmSettled", 0, "", 0)
  /\ UNCHANGED <<conn, procs, activeProcesses, tasks, outbox, nframes, nodeEnv>>

LOCAL_WORKSPACE_DIR ==
  Join(Join(Join(InstallDir \o <<"/","u","t","i","l","s">>, <<".", ".">>), <<".", ".">>),
       Workspace)

\* app.delete('/api/files/:path(*)') of server.js: storage.deleteFile(path)
\* deletes the blob in production and unlinks the local file otherwise
DeleteFileRoute(path) ==
  /\ Idle
  /\ Len(reqs) < MaxDeletes
  /\ reqs' = Append(reqs,
        IF nodeEnv = "production"
        THEN Request("file", path, path, "del", 0)
        ELSE Request("file", path, Join(LOCAL_WORKSPACE_DIR, path), "unlink", 0))
  /\ last' = Ran("deleteFile", 0, "", 0)
  /\ UNCHANGED <<conn, procs, activeProcesses, tasks, outbox, nframes, nodeEnv>>

\* del / fs.unlink settles
DeleteFileSettled(r, ok) ==
  /\ Idle
  /\ r \in DOMAIN reqs /\ reqs[r].route = "file" /\ reqs[r].phase \in {"del", "unlink"}
  /\ reqs' = [reqs EXCEPT ![r].phase = "done", ![r].status = IF ok THEN 200 ELSE 500]
  /\ last' = Ran("deleteFileSettled", 0, "", 0)
  /\ UNCHANGED <<conn, procs, activeProcesses, tasks, outbox, nframes, nodeEnv>>

\* workspacePath of config.js
workspacePath == Join(Join(InstallDir, <<".", ".">>), Workspace)

\* router.post('/delete'), up to fs.access(fullPath)
RouterDelete(path) ==
  /\ Idle
  /\ Len(reqs) < MaxDeletes
  /\ reqs' = Append(reqs, Request("router", path, Join(workspacePath, path), "access", 0))
  /\ last' = Ran("routerDelete", 0, "", 0)
  /\ UNCHANGED <<conn, procs, activeProcesses, tasks, outbox, nframes, nodeEnv>>

\* fs.access settles: 404 'File not found', or fs.stat(fullPath)
RouterAccessSettled(r, found) ==
  /\ Idle
  /\ r \in DOMAIN reqs /\ reqs[r].route = "router" /\ reqs[r].phase = "access"
  /\ reqs' = IF found
             THEN [reqs EXCEPT ![r].phase = "stat", ![r].fs = Append(@, "stat")]
             ELSE [reqs EXCEPT ![r].phase = "done", ![r].status = 404]
  /\ last' = Ran("routerAccessSettled", 0, "", 0)
  /\ UNCHANGED <<conn, procs, activeProcesses, tasks, outbox, nframes, nodeEnv>>

StatOutcomes == {"directory", "file", "error"}

\* fs.stat settles: fs.rm of a directory, fs.unlink of a file, or the catch
RouterStatSettled(r, stats) ==
  /\ Idle
  /\ r \in DOMAIN reqs /\ reqs[r].route = "router" /\ reqs[r].phase = "stat"
  /\ reqs' = IF stats = "error"
             THEN [reqs EXCEPT ![r].phase = "done", ![r].status = 500]
             ELSE LET call == IF stats = "directory" THEN "rm" ELSE "unlink"
                  IN  [reqs EXCEPT ![r].phase = call, ![r].fs = Append(@, call)]
  /\ last' = Ran("routerStatSettled", 0, "", 0)
  /\ UNCHANGED <<conn, procs, activeProcesses, tasks, outbox, nframes, nodeEnv>>

\* fs.rm / fs.unlink settles: res.json({success: true}), or the catch
RouterRemoveSettled(r, ok) ==
  /\ Idle
  /\ r \in DOMAIN reqs /\ reqs[r].route = "router" /\ reqs[r].phase \in {"rm", "unlink"}
  /\ reqs' = [reqs EXCEPT ![r].phase = "done", ![r].status = IF ok THEN 200 ELSE 500]
  /\ last' = Ran("routerRemoveSettled", 0, "", 0)
  /\ UNCHANGED <<conn, procs, activeProcesses, tasks, outbox, nframes, nodeEnv>>

\* ------------------------------------------------------------ specification
Init ==
  /\ conn = [c \in Conns |-> "new"]
  /\ procs = <<>>
  /\ activeProcesses = <<>>
  /\ tasks = <<>>
  /\ outbox = [c \in Conns |-> <<>>]
  /\ nframes = 0
  /\ nodeEnv \in {"production", "development"}
  /\ reqs = <<>>
  /\ last = [op |-> "init", ws |-> 0, frame |-> "", proc |-> 0]

Next ==
  \/ \E c \in Conns : Connect(c)
  \/ \E c \in Conns, text \in Frames : Message(c, text)
  \/ \E c \in Conns : WsClose(c)
  \/ \E k \in 1 .. (MaxProcs + MaxFrames) : Resume(k)
  \/ \E p \in 1 .. MaxProcs, chunk \in StdoutChunks : ChildStdout(p, chunk)
  \/ \E p \in 1 .. MaxProcs, chunk \in StderrChunks : ChildStderr(p, chunk)
  \/ \E p \in 1 .. MaxProcs, code \in {Num(0), Num(1), Null} : ChildExit(p, code)
  \/ \E p \in 1 .. MaxProcs : ChildClose(p)
  \/ \E p \in 1 .. MaxProcs : ChildError(p)
  \/ \E p \in 1 .. MaxProcs : UncaughtError(p)
  \/ \E path \in DeletePaths : DeleteDirectoryRoute(path)
  \/ \E r \in 1 .. MaxDeletes : GraceElapsed(r)
  \/ \E r \in 1 .. MaxDeletes, ok \in BOOLEAN : RmSettled(r, ok)
  \/ \E path \in DeletePaths : DeleteFileRoute(path)
  \/ \E r \in 1 .. MaxDeletes, ok \in BOOLEAN : DeleteFileSettled(r, ok)
  \/ \E path \in DeletePaths : RouterDelete(path)
  \/ \E r \in 1 .. MaxDeletes, found \in BOOLEAN : RouterAccessSettled(r, found)
  \/ \E r \in 1 .. MaxDeletes, stats \in StatOutcomes : RouterStatSettled(r, stats)
  \/ \E r \in 1 .. MaxDeletes, ok \in BOOLEAN : RouterRemoveSettled(r, ok)

Spec == Init /\ [][Next]_vars

ExitCodes == {Num(0), Num(1), Null}

\* sessions: commands, stops, disconnects and process exits on every connection
SessionFrames == {FrameStop, FrameLs}

NextSession ==
  \/ \E c \in Conns : Connect(c)
  \/ \E c \in Conns, text \in SessionFrames : Message(c, text)
  \/ \E c \in Conns : WsClose(c)
  \/ \E k \in 1 .. (MaxProcs + MaxFrames) : Resume(k)
  \/ \E p \in 1 .. MaxProcs, code \in ExitCodes : ChildExit(p, code)
  \/ \E p \in 1 .. MaxProcs : ChildClose(p)
  \/ \E p \in 1 .. MaxProcs : ChildError(p)
  \/ \E p \in 1 .. MaxProcs : UncaughtError(p)

SpecSession == Init /\ [][NextSession]_vars

\* the inbound protocol: every kind of frame, and the replies to it
NextFrames ==
  \/ \E c \in Conns : Connect(c)
  \/ \E c \in Conns, text \in Frames : Message(c, text)
  \/ \E k \in 1 .. (MaxProcs + MaxFrames) : Resume(k)
  \/ \E p \in 1 .. MaxProcs : ChildError(p)
  \/ \E p \in 1 .. MaxProcs : UncaughtError(p)

SpecFrames == Init /\ [][NextFrames]_vars

\* the terminal message of a process, over commands with and without the trigger
ExitFrames == {FrameLs, FrameScaffold, FrameNearMiss}

NextExit ==
  \/ \E c \in Conns : Connect(c)
  \/ \E c \in Conns, text \in ExitFrames : MessageWith(c, text, PlentifulOutcomes)
  \/ \E c \in Conns : WsClose(c)
  \/ \E k \in 1 .. (MaxProcs + MaxFrames) : Resume(k)
  \/ \E p \in 1 .. MaxProcs, code \in ExitCodes : ChildExit(p, code)
  \/ \E p \in 1 .. MaxProcs : ChildClose(p)
  \/ \E p \in 1 .. MaxProcs : ChildError(p)

SpecExit == Init /\ [][NextExit]_vars

\* the output stream of a process, interleaved with other senders
OutputFrames == {FrameLs}

NextOutput ==
  \/ \E c \in Conns : Connect(c)
  \/ \E c \in Conns, text \in OutputFrames : MessageWith(c, text, PlentifulOutcomes)
  \/ \E p \in 1 .. MaxProcs, chunk \in StdoutChunks : ChildStdout(p, chunk)
  \/ \E p \in 1 .. MaxProcs, chunk \in StderrChunks : ChildStderr(p, chunk)
  \/ \E p \in 1 .. MaxProcs, code \in ExitCodes : ChildExit(p, code)
  \/ \E p \in 1 .. MaxProcs : ChildClose(p)
  \/ \E p \in 1 .. MaxProcs : ChildError(p)

SpecOutput == Init /\ [][NextOutput]_vars

\* deleting under running processes
DeleteFrames == {FrameLs}

NextDelete ==
  \/ \E c \in Conns : Connect(c)
  \/ \E c \in Conns, text \in DeleteFrames : MessageWith(c, text, PlentifulOutcomes)
  \/ \E p \in 1 .. MaxProcs, code \in ExitCodes : ChildExit(p, code)
  \/ \E p \in 1 .. MaxProcs : ChildClose(p)
  \/ \E p \in 1 .. MaxProcs : ChildError(p)
  \/ \E path \in DeletePaths : DeleteDirectoryRoute(path)
  \/ \E r \in 1 .. MaxDeletes : GraceElapsed(r)
  \/ \E r \in 1 .. MaxDeletes, ok \in BOOLEAN : RmSettled(r, ok)
  \/ \E path \in DeletePaths : DeleteFileRoute(path)
  \/ \E r \in 1 .. MaxDeletes, ok \in BOOLEAN : DeleteFileSettled(r, ok)
  \/ \E path \in DeletePaths : RouterDelete(path)
  \/ \E r \in 1 .. MaxDeletes, found \in BOOLEAN : RouterAccessSettled(r, found)
  \/ \E r \in 1 .. MaxDeletes, stats \in StatOutcomes : RouterStatSettled(r, stats)
  \/ \E r \in 1 .. MaxDeletes, ok \in BOOLEAN : RouterRemoveSettled(r, ok)

SpecDelete == Init /\ [][NextDelete]_vars


\* ============================================================ claims
OwnedBy(c) == {p \in DOMAIN procs : procs[p].ws = c}

CloseLoopPending(c) ==
  \E k \in DOMAIN tasks : tasks[k].kind = "close" /\ tasks[k].ws = c

Unfinished(p) == procs[p].phase \in {"running", "exited"}

\* C1: once the close of connection S has been handled, every process S
\* spawned whose exit has not been handled has had process.kill called on its
\* pid and has no registry entry.
C1_DisconnectTearsDown ==
  \A c \in Conns :
    (conn[c] = "closed" /\ ~CloseLoopPending(c)) =>
      \A p \in OwnedBy(c) :
        Unfinished(p) => (~Registered(p) /\ procs[p].term # "none")

\* two running processes of one connection, torn down by its close
C1_Witness ==
  \E c \in Conns :
    /\ conn[c] = "closed" /\ ~CloseLoopPending(c)
    /\ last.op = "close" /\ last.ws = c
    /\ Cardinality({p \in OwnedBy(c) :
                      procs[p].term = "delivered" /\ ~Registered(p)}) >= 2

\* the entries of other connections that a step of connection c's handler
\* leaves alone: still registered, their processes no further signalled
LeavesOthersAlone(c) ==
  \A i \in DOMAIN activeProcesses :
    LET e == activeProcesses[i]
    IN  e.ws # c =>
          /\ \E j \in DOMAIN activeProcesses' : activeProcesses'[j] = e
          /\ procs'[e.process].term = procs[e.process].term

\* C2: a stop on connection C terminates and removes only the entries C owns.
C2_StopOnlyOwn == [][last'.op = "stop" => LeavesOthersAlone(last'.ws)]_vars

\* C3: the close of connection C never terminates or removes an entry of
\* another connection.
C3_CloseOnlyOwn == [][last'.op = "close" => LeavesOthersAlone(last'.ws)]_vars

\* a close has torn down its own process beside a running one of another
\* connection, which is still registered and was never signalled
C3_Witness ==
  /\ last.op = "close"
  /\ \E p \in OwnedBy(last.ws) : procs[p].term = "delivered" /\ ~Registered(p)
  /\ \E q \in DOMAIN procs :
       /\ procs[q].ws # last.ws /\ procs[q].phase = "running"
       /\ procs[q].term = "none" /\ Registered(q)

\* C4: no registry entry refers to a process whose 'close' or 'error' event
\* has been handled.
C4_NoStaleEntry ==
  \A i \in DOMAIN activeProcesses :
    procs[activeProcesses[i].process].phase \notin {"closed", "errored"}

\* a process that exited on its own and a failed spawn, both handled and gone
C4_Witness ==
  /\ \E p \in DOMAIN procs :
       procs[p].phase = "closed" /\ procs[p].term = "none" /\ procs[p].code = Num(0)
  /\ \E q \in DOMAIN procs : procs[q].phase = "errored"
  /\ activeProcesses = <<>>

\* C5: the terminal message of a process is commandComplete if and only if
\* its command contains 'create-react-app', whatever the exit code, and a
\* close message otherwise; both carry the exit code.
C5_TerminalMessage ==
  (last.op = "childClose" /\ conn[last.ws] = "open") =>
    LET sent == outbox[last.ws][Len(outbox[last.ws])]
        pr   == procs[last.proc]
    IN  /\ sent.from = last.proc
        /\ sent.msg.command = pr.command
        /\ sent.msg.code = pr.code
        /\ sent.msg.type =
             IF Includes(pr.command, SCAFFOLD_TRIGGER) THEN "commandComplete" ELSE "close"

\* a scaffold command that exited with code 1 was answered with commandComplete
C5_Witness ==
  /\ last.op = "childClose" /\ conn[last.ws] = "open"
  /\ procs[last.proc].command = CmdScaffold
  /\ procs[last.proc].code = Num(1)
  /\ outbox[last.ws][Len(outbox[last.ws])].msg.type = "commandComplete"

\* the step put exactly one message on connection c, an error, and nothing
\* on any other connection
OneErrorTo(c) ==
  /\ Len(outbox'[c]) = Len(outbox[c]) + 1
  /\ SubSeq(outbox'[c], 1, Len(outbox[c])) = outbox[c]
  /\ outbox'[c][Len(outbox'[c])].msg.type = "error"
  /\ \A d \in Conns \ {c} : outbox'[d] = outbox[d]

JsonErrorReply == [type |-> "error", content |-> JSONParse(FrameNotJson).message]

HadBadFrame(c) == \E i \in DOMAIN outbox[c] : outbox[c][i].msg = JsonErrorReply

\* C6: a frame that is not JSON is answered with exactly one error message,
\* leaves the registry and the connection as they were, and a command handled
\* afterwards on that connection is spawned and registered.
C6_BadFrame ==
  [][ /\ (last'.op = "caught" /\ last'.frame = FrameNotJson) =>
           /\ OneErrorTo(last'.ws)
           /\ activeProcesses' = activeProcesses
           /\ conn' = conn /\ conn'[last'.ws] = "open"
      /\ (last'.op = "command" /\ HadBadFrame(last'.ws)) =>
           /\ Len(procs') = Len(procs) + 1
           /\ procs'[Len(procs')].ws = last'.ws
           /\ \E i \in DOMAIN activeProcesses' :
                /\ activeProcesses'[i].process = Len(procs')
                /\ activeProcesses'[i].ws = last'.ws
    ]_vars

\* a command was spawned and registered on a connection that had answered a
\* bad frame before
C6_Witness ==
  /\ last.op = "command" /\ HadBadFrame(last.ws)
  /\ procs[last.proc].phase = "running" /\ Registered(last.proc)
  /\ conn[last.ws] = "open"

WrongShapeFrames == {FramePing, FrameNoCommand, FrameEmptyCmd}

\* C7: a frame that is JSON of the wrong shape is answered with a single error
\* message and the connection is not closed.
C7_WrongShapeAnswered ==
  [][ last'.frame \in WrongShapeFrames =>
        (OneErrorTo(last'.ws) /\ conn' = conn) ]_vars

\* C8: a stop message handled while the registry is empty sends nothing,
\* raises nothing and leaves the registry as it was.
C8_StopWithNothing ==
  [][ (last'.frame = FrameStop /\ activeProcesses = <<>>) =>
        /\ last'.op = "stop"
        /\ outbox' = outbox
        /\ activeProcesses' = activeProcesses
        /\ procs' = procs /\ tasks' = tasks /\ conn' = conn
    ]_vars

\* a stop was handled on an empty registry after a process had come and gone
C8_Witness ==
  /\ last.op = "stop" /\ last.frame = FrameStop
  /\ activeProcesses = <<>> /\ tasks = <<>>
  /\ \E p \in DOMAIN procs : procs[p].phase = "closed"

IsOutputOf(p, m) == m.from = p /\ m.msg.type = "output"

OutputsOf(c, p) == SelectSeq(outbox[c], LAMBDA m : IsOutputOf(p, m))

\* C9: while its owner is connected, the output messages of a process are its
\* stdout chunks, one message a chunk, in the order of emission.
C9_StdoutOrder ==
  \A p \in DOMAIN procs :
    conn[procs[p].ws] = "open" =>
      LET got == OutputsOf(procs[p].ws, p)
      IN  /\ Len(got) = Len(procs[p].out)
          /\ \A i \in DOMAIN got : got[i].msg.content = ToString(procs[p].out[i])

\* chunk A then chunk B of one process, with a message of another sender
\* (stderr, or another process) delivered between them
C9_Witness ==
  \E p \in DOMAIN procs :
    LET ob == outbox[procs[p].ws]
    IN  /\ procs[p].out = << <<65>>, <<66, 195>> >>
        /\ \E i, j, k \in DOMAIN ob :
             /\ i < j /\ j < k
             /\ IsOutputOf(p, ob[i]) /\ ob[i].msg.content = <<"A">>
             /\ ~IsOutputOf(p, ob[j])
             /\ IsOutputOf(p, ob[k]) /\ ob[k].msg.content = <<"B", "U+FFFD">>

RemovalAttempted(r) ==
  \/ reqs[r].phase \in {"rm", "unlink"}
  \/ reqs[r].phase = "done" /\ reqs[r].status \notin {403, 404}

\* C10: when a delete request removes a directory under which the working
\* directory of a running registered process lies, the process has received a
\* termination signal before the removal is attempted.
C10_SignalBeforeRemoval ==
  \A r \in DOMAIN reqs :
    RemovalAttempted(r) => \A p \in reqs[r].under : procs[p].term = "delivered"

\* C11: after the delete of a directory that holds the working directory of a
\* running registered process has completed, its removal having gone through,
\* the request was answered with success and the registry holds no entry for
\* that process.
C11_DeleteClearsRegistry ==
  \A r \in DOMAIN reqs :
    (reqs[r].route = "directory" /\ reqs[r].phase = "done" /\ reqs[r].status = 200) =>
      \A p \in reqs[r].under : ~Registered(p)

\* the root below which a request of each route is meant to stay
RootOf(route) ==
  IF route = "directory" THEN WORKSPACE_DIR
  ELSE IF route = "router" THEN workspacePath ELSE LOCAL_WORKSPACE_DIR

\* the request names a path of the filesystem that resolves outside the root
Escapes(r) ==
  /\ ~(reqs[r].route = "file" /\ nodeEnv = "production")
  /\ ~Under(reqs[r].target, RootOf(reqs[r].route))

\* C12: a delete request whose path resolves outside the workspace root is
\* rejected with the path-escape error, and neither a filesystem call nor a
\* process termination is performed for it.
C12_EscapeRejected ==
  \A r \in DOMAIN reqs :
    Escapes(r) =>
      /\ reqs[r].phase = "done" /\ reqs[r].status = 403
      /\ reqs[r].fs = <<>>
      /\ reqs[r].kills = 0

CommandFrames == {FrameLs, FrameScaffold, FrameNearMiss}

SpawnErrorTexts == {SpawnErrorMessage(o) : o \in SpawnOutcomes \ {"ok"}}

\* the step dealt with a spawn that failed: its 'error' event was emitted, or
\* spawn threw inside the message handler
SpawnFailureHandled ==
  \/ last'.op \in {"childError", "uncaught"}
  \/ last'.op = "caught" /\ last'.frame \in CommandFrames

\* C13: when a spawn fails, the step that deals with the failure leaves no
\* registry entry for the failed spawn, sends one error message carrying the
\* failure text to the requesting connection, and leaves that connection open.
C13_SpawnFailure ==
  [][ SpawnFailureHandled =>
        /\ \A i \in DOMAIN activeProcesses' :
             last'.proc = 0 \/ activeProcesses'[i].process # last'.proc
        /\ OneErrorTo(last'.ws)
        /\ outbox'[last'.ws][Len(outbox'[last'.ws])].msg.content \in SpawnErrorTexts
        /\ conn' = conn /\ conn'[last'.ws] = "open"
    ]_vars

\* the loop that ran last has come to its end
LoopEnded ==
  /\ last.op \in {"stop", "close"}
  /\ \A k \in DOMAIN tasks : ~(tasks[k].kind = last.op /\ tasks[k].ws = last.ws)

\* C14: a termination signal that could not be delivered does not end the
\* teardown loop: the entry of that process is removed when the loop resumes
\* (it is registered only while a loop is suspended on it), and a loop that
\* has come to its end has left none of the entries it goes over.
C14_KillFailureSwallowed ==
  /\ \A p \in DOMAIN procs :
       (procs[p].term = "failed" /\ Registered(p)) =>
         \E k \in DOMAIN tasks : tasks[k].cur = procs[p].pid
  /\ LoopEnded =>
       \A i \in DOMAIN activeProcesses :
         ~Matches([kind |-> last.op, ws |-> last.ws], activeProcesses[i])

\* a loop has ended that could not signal its first process (EPERM, the
\* process still runs) and went on to signal and remove the second
C14_Witness ==
  /\ LoopEnded /\ tasks = <<>>
  /\ \E p, q \in DOMAIN procs :
       /\ p < q /\ procs[p].ws = last.ws /\ procs[q].ws = last.ws
       /\ procs[p].term = "failed" /\ procs[p].phase = "running" /\ ~Registered(p)
       /\ procs[q].term = "delivered" /\ ~Registered(q)

\* C15: a teardown loop goes over the registry as it was when the loop
\* started: it never calls killProcess on (and so never removes) a process
\* that was registered after its start.
C15_TeardownOnSnapshot ==
  \A k \in DOMAIN tasks :
    \A p \in DOMAIN procs :
      (procs[p].pid # Undefined /\ procs[p].pid = tasks[k].cur) => p <= tasks[k].seen

\* C16: when the 'close' event of a process is handled after its entry has
\* already been removed (by a stop, by a disconnect), the removal in the
\* handler leaves the registry exactly as it was.
C16_RemovalIdempotent ==
  [][ (last'.op = "childClose" /\ ~Registered(last'.proc)) =>
        activeProcesses' = activeProcesses ]_vars

\* the close of a process that a teardown had signalled and removed was
\* handled while another process was registered, and that one still is
C16_Witness ==
  /\ last.op = "childClose"
  /\ procs[last.proc].term = "delivered" /\ procs[last.proc].code = Null
  /\ \E q \in DOMAIN procs : q # last.proc /\ procs[q].phase = "running" /\ Registered(q)

====
